---------------------------- MODULE Spec2Model ----------------------------
(***************************************************************************)
(* A model of the CHIP-8 interpreter of src/c/src/chip8.c: the machine     *)
(* state (chip8_state), its construction (init_state, load_rom), the host  *)
(* loop (main, process_sdl_events) and the fetch-decode-execute step       *)
(* (processor_cycle), one operator per case of its switch.                 *)
(***************************************************************************)
EXTENDS Integers, Sequences, FiniteSets, TLC

(***************************************************************************)
(* Program constants.                                                      *)
(***************************************************************************)
DISPLAY_WIDTH == 64
DISPLAY_HEIGHT == 32
MAX_STACK_SIZE == 100
MEM_SIZE == 4096
ROM_START == 512
FONT_MEMORY_START == 80
VF == 15

(***************************************************************************)
(* Fixed-width arithmetic: uint8_t and uint16_t wrap, int does not.        *)
(***************************************************************************)
U8(v) == v % 256

U16(v) == v % 65536

Bit(v, i) == (v \div (2 ^ i)) % 2

BoolInt(b) == IF b THEN 1 ELSE 0

And8(a, b) ==
    LET f[i \in 0..8] ==
            IF i = 8 THEN 0
            ELSE (IF Bit(a, i) = 1 /\ Bit(b, i) = 1 THEN 2 ^ i ELSE 0) + f[i + 1]
    IN  f[0]

Or8(a, b) ==
    LET f[i \in 0..8] ==
            IF i = 8 THEN 0
            ELSE (IF Bit(a, i) = 1 \/ Bit(b, i) = 1 THEN 2 ^ i ELSE 0) + f[i + 1]
    IN  f[0]

Xor8(a, b) ==
    LET f[i \in 0..8] ==
            IF i = 8 THEN 0
            ELSE (IF Bit(a, i) # Bit(b, i) THEN 2 ^ i ELSE 0) + f[i + 1]
    IN  f[0]

(***************************************************************************)
(* The font table, as a sequence of 80 bytes (font[k] of the source is     *)
(* font[k + 1] here).                                                      *)
(***************************************************************************)
font ==
    << 240, 144, 144, 144, 240,
        32,  96,  32,  32, 112,
       240,  16, 240, 128, 240,
       240,  16, 240,  16, 240,
       144, 144, 240,  16,  16,
       240, 128, 240,  16, 240,
       240, 128, 240, 144, 240,
       240,  16,  32,  64,  64,
       240, 144, 240, 144, 240,
       240, 144, 240,  16, 240,
       240, 144, 240, 144, 144,
       224, 144, 224, 144, 224,
       240, 128, 128, 128, 240,
       224, 144, 144, 144, 224,
       240, 128, 240, 128, 240,
       240, 128, 240, 128, 128 >>

(***************************************************************************)
(* The decoded fields of a 16-bit instruction word.                        *)
(***************************************************************************)
OP(w) == w \div 4096

X(w) == (w % 4096) \div 256

Y(w) == (w % 256) \div 16

NNN(w) == w % 4096

NN(w) == w % 256

N(w) == w % 16


(***************************************************************************)
(* Memory and key-state accesses.  An access outside the array is          *)
(* undefined behaviour: a read yields the byte u the caller draws, a write *)
(* does not land in mem, and the step is flagged (the ub field).           *)
(* In chip8_state display follows mem, so a store to mem[4096 + k],        *)
(* k < 64 * 32, is a store to the byte of display[k / 32][k % 32]: it      *)
(* either lands there (lands) or is not seen in the state at all; a byte   *)
(* other than 0 is read back as an on cell.  Stores further out are        *)
(* outside display and are not followed.                                   *)
(***************************************************************************)
MemRead(s, a, u) == IF a < MEM_SIZE THEN s.mem[a] ELSE u

MemWrite(mem, a, v) == IF a < MEM_SIZE THEN [mem EXCEPT ![a] = v] ELSE mem

Spill(display, a, v, lands) ==
    IF lands /\ a >= MEM_SIZE /\ a - MEM_SIZE < DISPLAY_WIDTH * DISPLAY_HEIGHT
    THEN [display EXCEPT ![(a - MEM_SIZE) \div DISPLAY_HEIGHT][(a - MEM_SIZE) % DISPLAY_HEIGHT]
                            = (v # 0)]
    ELSE display

KeyRead(s, k, u) == IF k <= 15 THEN BoolInt(s.keys_pressed[k]) ELSE u

(***************************************************************************)
(* What a case of the switch yields: the state it leaves, how the process  *)
(* goes on ("running", or the exit taken), and whether it touched memory   *)
(* outside an array.                                                       *)
(***************************************************************************)
Running(s) == [st |-> s, exit |-> "running", ub |-> FALSE]

RunningUb(s, flag) == [st |-> s, exit |-> "running", ub |-> flag]

Exit(s, how) == [st |-> s, exit |-> how, ub |-> FALSE]

exit_unknown_instruction(s) == Exit(s, "unknown_instruction")

(***************************************************************************)
(* The cases of processor_cycle's switch.  Each takes the state after the  *)
(* fetch (program_counter already advanced by 2).                          *)
(***************************************************************************)
\* op_00E0 clearing from column 1 on.
op_00E0_from_one(s) ==
    Running([s EXCEPT !.display =
                [i \in 0..(DISPLAY_WIDTH - 1) |->
                    [j \in 0..(DISPLAY_HEIGHT - 1) |-> i = 0 /\ s.display[i][j]]]])

op_00E0(s) ==
    Running([s EXCEPT !.display =
                [i \in 0..(DISPLAY_WIDTH - 1) |-> [j \in 0..(DISPLAY_HEIGHT - 1) |-> FALSE]]])

\* op_00EE reading the slot above the top of the stack.
op_00EE_above_top(s) ==
    IF s.stack_ptr = 0
    THEN Exit(s, "stack_underflow")
    ELSE Running([s EXCEPT !.program_counter = s.stack[s.stack_ptr],
                           !.stack_ptr = s.stack_ptr - 1])

\* op_00EE taking a stack of one entry for empty.
op_00EE_one_is_empty(s) ==
    IF s.stack_ptr <= 1
    THEN Exit(s, "stack_underflow")
    ELSE Running([s EXCEPT !.program_counter = s.stack[s.stack_ptr - 1],
                           !.stack_ptr = s.stack_ptr - 1])

\* op_00EE leaving stack_ptr as it is.
op_00EE_keeps_size(s) ==
    IF s.stack_ptr = 0
    THEN Exit(s, "stack_underflow")
    ELSE Running([s EXCEPT !.program_counter = s.stack[s.stack_ptr - 1]])

op_00EE(s) ==
    IF s.stack_ptr = 0
    THEN Exit(s, "stack_underflow")
    ELSE Running([s EXCEPT !.program_counter = s.stack[s.stack_ptr - 1],
                           !.stack_ptr = s.stack_ptr - 1])

op_1NNN(s, nnn) == Running([s EXCEPT !.program_counter = nnn])

\* op_2NNN refusing the last free slot.
op_2NNN_full_one_early(s, nnn) ==
    IF s.stack_ptr >= MAX_STACK_SIZE - 1
    THEN Exit(s, "stack_overflow")
    ELSE Running([s EXCEPT !.stack[s.stack_ptr] = s.program_counter,
                           !.stack_ptr = U8(s.stack_ptr + 1),
                           !.program_counter = nnn])

op_2NNN(s, nnn) ==
    IF s.stack_ptr = MAX_STACK_SIZE
    THEN Exit(s, "stack_overflow")
    ELSE Running([s EXCEPT !.stack[s.stack_ptr] = s.program_counter,
                           !.stack_ptr = U8(s.stack_ptr + 1),
                           !.program_counter = nnn])

Skip(s, cond) ==
    Running(IF cond THEN [s EXCEPT !.program_counter = U16(@ + 2)] ELSE s)

op_3XNN(s, x, nn) == Skip(s, s.V[x] = nn)

op_4XNN(s, x, nn) == Skip(s, s.V[x] # nn)

op_5XY0(s, x, y) == Skip(s, s.V[x] = s.V[y])

op_9XY0(s, x, y) == Skip(s, s.V[x] # s.V[y])

\* op_6XNN adding nn to V[x] where the source stores it.
op_6XNN_adds(s, x, nn) == Running([s EXCEPT !.V[x] = U8(@ + nn)])

op_6XNN(s, x, nn) == Running([s EXCEPT !.V[x] = nn])

op_7XNN(s, x, nn) == Running([s EXCEPT !.V[x] = U8(@ + nn)])

op_8XY0(s, x, y) == Running([s EXCEPT !.V[x] = s.V[y]])

op_8XY1(s, x, y) == Running([s EXCEPT !.V[x] = Or8(s.V[x], s.V[y])])

op_8XY2(s, x, y) == Running([s EXCEPT !.V[x] = And8(s.V[x], s.V[y])])

op_8XY3(s, x, y) == Running([s EXCEPT !.V[x] = Xor8(s.V[x], s.V[y])])

(* V[0xF] = (V[x] + V[y]) < V[x]: the operands are promoted to int, so the *)
(* sum is not wrapped before the comparison.  Then V[x] += V[y], reading   *)
(* the registers as the first statement left them.                         *)
op_8XY4(s, x, y) ==
    LET v1 == [s.V EXCEPT ![VF] = BoolInt(s.V[x] + s.V[y] < s.V[x])]
        v2 == [v1 EXCEPT ![x] = U8(v1[x] + v1[y])]
    IN  Running([s EXCEPT !.V = v2])

op_8XY5(s, x, y) ==
    LET v1 == [s.V EXCEPT ![VF] = BoolInt(s.V[x] > s.V[y])]
        v2 == [v1 EXCEPT ![x] = U8(v1[x] - v1[y])]
    IN  Running([s EXCEPT !.V = v2])

op_8XY6(s, x) ==
    LET v1 == [s.V EXCEPT ![VF] = s.V[x] % 2]
        v2 == [v1 EXCEPT ![x] = v1[x] \div 2]
    IN  Running([s EXCEPT !.V = v2])

op_8XY7(s, x, y) ==
    LET v1 == [s.V EXCEPT ![VF] = BoolInt(s.V[y] > s.V[x])]
        v2 == [v1 EXCEPT ![x] = U8(v1[y] - v1[x])]
    IN  Running([s EXCEPT !.V = v2])

op_8XYE(s, x) ==
    LET v1 == [s.V EXCEPT ![VF] = Bit(s.V[x], 7)]
        v2 == [v1 EXCEPT ![x] = U8(v1[x] * 2)]
    IN  Running([s EXCEPT !.V = v2])

op_ANNN(s, nnn) == Running([s EXCEPT !.index_register = nnn])

op_BNNN(s, x, nnn) == Running([s EXCEPT !.program_counter = U16(s.V[x] + nnn)])

op_CXNN(s, x, nn, r) == Running([s EXCEPT !.V[x] = And8(U8(r), nn)])

\* draw_cols setting the cell (|=) where the source toggles it (^=).
RECURSIVE draw_cols_or(_, _, _, _, _)
draw_cols_or(acc, sprite_row, dx, py, i) ==
    IF i < 8 /\ dx + i < DISPLAY_WIDTH
    THEN LET sprite_bit == Bit(sprite_row, 7 - i)
             cell == acc.display[dx + i][py]
         IN  draw_cols_or([display |-> [acc.display EXCEPT ![dx + i][py] = (cell \/ sprite_bit = 1)],
                           vf |-> IF cell /\ sprite_bit = 1 THEN 1 ELSE acc.vf],
                          sprite_row, dx, py, i + 1)
    ELSE acc

\* draw_cols carrying the bits past the right edge over to column 0 on.
RECURSIVE draw_cols_wraps(_, _, _, _, _)
draw_cols_wraps(acc, sprite_row, dx, py, i) ==
    IF i < 8
    THEN LET sprite_bit == Bit(sprite_row, 7 - i)
             px == (dx + i) % DISPLAY_WIDTH
             cell == acc.display[px][py]
         IN  draw_cols_wraps([display |-> [acc.display EXCEPT ![px][py] = (cell # (sprite_bit = 1))],
                              vf |-> IF cell /\ sprite_bit = 1 THEN 1 ELSE acc.vf],
                             sprite_row, dx, py, i + 1)
    ELSE acc

(* The inner loop of DXYN over the bits of one sprite row: i < 8 and       *)
(* dx + i < DISPLAY_WIDTH.  acc carries the display and V[0xF].            *)
RECURSIVE draw_cols(_, _, _, _, _)
draw_cols(acc, sprite_row, dx, py, i) ==
    IF i < 8 /\ dx + i < DISPLAY_WIDTH
    THEN LET sprite_bit == Bit(sprite_row, 7 - i)
             cell == acc.display[dx + i][py]
         IN  draw_cols([display |-> [acc.display EXCEPT ![dx + i][py] = (cell # (sprite_bit = 1))],
                        vf |-> IF cell /\ sprite_bit = 1 THEN 1 ELSE acc.vf],
                       sprite_row, dx, py, i + 1)
    ELSE acc

(* The outer loop over the sprite rows: j < n and dy + j < DISPLAY_HEIGHT. *)
(* The rows are drawn in sequence: acc.vf, the uint8_t V[0xF], is read in  *)
(* the loop condition so that a row is evaluated before the next one       *)
(* starts.                                                                 *)
RECURSIVE draw_rows(_, _, _, _, _, _, _)
draw_rows(acc, s, dx, dy, n, j, u) ==
    IF acc.vf \in 0..255 /\ j < n /\ dy + j < DISPLAY_HEIGHT
    THEN draw_rows(draw_cols(acc, MemRead(s, s.index_register + j, u), dx, dy + j, 0),
                   s, dx, dy, n, j + 1, u)
    ELSE acc

\* op_DXYN without the reset of V[0xF] before the loops.
op_DXYN_keeps_vf(s, x, y, n, u) ==
    LET dx == U8(s.V[x] % DISPLAY_WIDTH)
        dy == U8(s.V[y] % DISPLAY_HEIGHT)
        drawn == draw_rows([display |-> s.display, vf |-> s.V[VF]], s, dx, dy, n, 0, u)
    IN  RunningUb([s EXCEPT !.V[VF] = drawn.vf, !.display = drawn.display],
                  \E j \in 0..(n - 1) : dy + j < DISPLAY_HEIGHT /\ s.index_register + j >= MEM_SIZE)

op_DXYN(s, x, y, n, u) ==
    LET dx == U8(s.V[x] % DISPLAY_WIDTH)
        dy == U8(s.V[y] % DISPLAY_HEIGHT)
        drawn == draw_rows([display |-> s.display, vf |-> 0], s, dx, dy, n, 0, u)
    IN  RunningUb([s EXCEPT !.V[VF] = drawn.vf, !.display = drawn.display],
                  \E j \in 0..(n - 1) : dy + j < DISPLAY_HEIGHT /\ s.index_register + j >= MEM_SIZE)

op_EX9E(s, x, u) ==
    [Skip(s, KeyRead(s, s.V[x], u) = 1) EXCEPT !.ub = s.V[x] > 15]

\* op_EXA1 skipping when the key is pressed.
op_EXA1_skips_if_pressed(s, x, u) ==
    [Skip(s, KeyRead(s, s.V[x], u) = 1) EXCEPT !.ub = s.V[x] > 15]

op_EXA1(s, x, u) ==
    [Skip(s, KeyRead(s, s.V[x], u) = 0) EXCEPT !.ub = s.V[x] > 15]

op_FX07(s, x) == Running([s EXCEPT !.V[x] = s.delay_timer])

op_FX15(s, x) == Running([s EXCEPT !.delay_timer = s.V[x]])

op_FX18(s, x) == Running([s EXCEPT !.sound_timer = s.V[x]])

(* V[0xF] = (V[x] + index_register) < V[x], again on ints; then            *)
(* index_register += V[x] on uint16_t.                                     *)
op_FX1E(s, x) ==
    LET v1 == [s.V EXCEPT ![VF] = BoolInt(s.V[x] + s.index_register < s.V[x])]
    IN  Running([s EXCEPT !.V = v1, !.index_register = U16(s.index_register + v1[x])])

\* op_FX0A without the program_counter -= 2.
op_FX0A_no_rewind(s, x) ==
    LET pressed == {i \in 0..15 : s.keys_pressed[i]}
        first == CHOOSE i \in pressed : \A k \in pressed : i <= k
    IN  Running(IF pressed = {} THEN s ELSE [s EXCEPT !.V[x] = first])

\* op_FX0A without the break: every pressed key is stored and advances program_counter.
op_FX0A_no_break(s, x) ==
    LET pressed == {i \in 0..15 : s.keys_pressed[i]}
        back == [s EXCEPT !.program_counter = U16(@ - 2)]
        last == CHOOSE i \in pressed : \A k \in pressed : i >= k
    IN  Running(IF pressed = {} THEN back
                ELSE [back EXCEPT !.V[x] = last,
                                  !.program_counter =
                                      U16(back.program_counter + 2 * Cardinality(pressed))])

(* program_counter -= 2, then the scan of keys_pressed[0..15]: the first   *)
(* pressed key is stored, program_counter += 2, break.                     *)
op_FX0A(s, x) ==
    LET pressed == {i \in 0..15 : s.keys_pressed[i]}
        back == [s EXCEPT !.program_counter = U16(@ - 2)]
        first == CHOOSE i \in pressed : \A k \in pressed : i <= k
    IN  Running(IF pressed = {} THEN back
                ELSE [back EXCEPT !.V[x] = first,
                                  !.program_counter = U16(back.program_counter + 2)])

op_FX29(s, x) ==
    Running([s EXCEPT !.index_register = U16(FONT_MEMORY_START + s.V[x] * 5)])

\* op_FX33 storing V[x] / 10 as the tens digit, without the % 100.
op_FX33_tens_unreduced(s, x, lands) ==
    LET I == s.index_register
        m1 == MemWrite(s.mem, I, (s.V[x] % 1000) \div 100)
        m2 == MemWrite(m1, I + 1, s.V[x] \div 10)
        m3 == MemWrite(m2, I + 2, s.V[x] % 10)
    IN  RunningUb([s EXCEPT !.mem = m3], I + 2 >= MEM_SIZE)

op_FX33(s, x, lands) ==
    LET I == s.index_register
        hundreds == (s.V[x] % 1000) \div 100
        tens == (s.V[x] % 100) \div 10
        ones == s.V[x] % 10
        m1 == MemWrite(s.mem, I, hundreds)
        m2 == MemWrite(m1, I + 1, tens)
        m3 == MemWrite(m2, I + 2, ones)
        d1 == Spill(s.display, I, hundreds, lands)
        d2 == Spill(d1, I + 1, tens, lands)
        d3 == Spill(d2, I + 2, ones, lands)
    IN  RunningUb([s EXCEPT !.mem = m3, !.display = d3], I + 2 >= MEM_SIZE)

\* store_registers stopping before V[x] (i < x).
RECURSIVE store_registers_exclusive(_, _, _, _, _)
store_registers_exclusive(mem, V, I, x, i) ==
    IF i < x THEN store_registers_exclusive(MemWrite(mem, I + i, V[i]), V, I, x, i + 1) ELSE mem

(* for (i = 0; i <= x; i++) mem[index_register + i] = V[i]                 *)
RECURSIVE store_registers(_, _, _, _, _)
store_registers(mem, V, I, x, i) ==
    IF i <= x THEN store_registers(MemWrite(mem, I + i, V[i]), V, I, x, i + 1) ELSE mem

\* What the same loop does to display, for the stores that fall behind mem.
RECURSIVE spill_registers(_, _, _, _, _, _)
spill_registers(display, V, I, x, i, lands) ==
    IF i <= x
    THEN spill_registers(Spill(display, I + i, V[i], lands), V, I, x, i + 1, lands)
    ELSE display

op_FX55(s, x, lands) ==
    RunningUb([s EXCEPT !.mem = store_registers(s.mem, s.V, s.index_register, x, 0),
                        !.display = IF s.index_register + x >= MEM_SIZE
                                    THEN spill_registers(s.display, s.V, s.index_register,
                                                         x, 0, lands)
                                    ELSE s.display],
              s.index_register + x >= MEM_SIZE)

(* for (i = 0; i <= x; i++) V[i] = mem[index_register + i]                 *)
op_FX65(s, x, u) ==
    LET I == s.index_register
    IN  RunningUb([s EXCEPT !.V = [i \in 0..15 |->
                                     IF i <= x THEN MemRead(s, I + i, u) ELSE s.V[i]]],
                  I + x >= MEM_SIZE)

(***************************************************************************)
(* processor_cycle: fetch the big-endian word at program_counter, advance  *)
(* program_counter by 2, decode, dispatch.  r is what rand() returns, u    *)
(* the byte an out-of-array read yields, and lands whether a store behind  *)
(* mem lands in display.                                                   *)
(***************************************************************************)
fetch(s, u) ==
    MemRead(s, s.program_counter, u) * 256 + MemRead(s, s.program_counter + 1, u)

dispatch(s, w, r, u, lands) ==
    CASE OP(w) = 0 ->
            (CASE NNN(w) = 224 -> op_00E0(s)
               [] NNN(w) = 238 -> op_00EE(s)
               [] OTHER -> exit_unknown_instruction(s))
      [] OP(w) = 1 -> op_1NNN(s, NNN(w))
      [] OP(w) = 2 -> op_2NNN(s, NNN(w))
      [] OP(w) = 3 -> op_3XNN(s, X(w), NN(w))
      [] OP(w) = 4 -> op_4XNN(s, X(w), NN(w))
      [] OP(w) = 5 -> op_5XY0(s, X(w), Y(w))
      [] OP(w) = 9 -> op_9XY0(s, X(w), Y(w))
      [] OP(w) = 6 -> op_6XNN(s, X(w), NN(w))
      [] OP(w) = 7 -> op_7XNN(s, X(w), NN(w))
      [] OP(w) = 8 ->
            (CASE N(w) = 0 -> op_8XY0(s, X(w), Y(w))
               [] N(w) = 1 -> op_8XY1(s, X(w), Y(w))
               [] N(w) = 2 -> op_8XY2(s, X(w), Y(w))
               [] N(w) = 3 -> op_8XY3(s, X(w), Y(w))
               [] N(w) = 4 -> op_8XY4(s, X(w), Y(w))
               [] N(w) = 5 -> op_8XY5(s, X(w), Y(w))
               [] N(w) = 6 -> op_8XY6(s, X(w))
               [] N(w) = 7 -> op_8XY7(s, X(w), Y(w))
               [] N(w) = 14 -> op_8XYE(s, X(w))
               [] OTHER -> exit_unknown_instruction(s))
      [] OP(w) = 10 -> op_ANNN(s, NNN(w))
      [] OP(w) = 11 -> op_BNNN(s, X(w), NNN(w))
      [] OP(w) = 12 -> op_CXNN(s, X(w), NN(w), r)
      [] OP(w) = 13 -> op_DXYN(s, X(w), Y(w), N(w), u)
      [] OP(w) = 14 ->
            (CASE NN(w) = 158 -> op_EX9E(s, X(w), u)
               [] NN(w) = 161 -> op_EXA1(s, X(w), u)
               [] OTHER -> exit_unknown_instruction(s))
      [] OP(w) = 15 ->
            (CASE NN(w) = 7 -> op_FX07(s, X(w))
               [] NN(w) = 21 -> op_FX15(s, X(w))
               [] NN(w) = 24 -> op_FX18(s, X(w))
               [] NN(w) = 30 -> op_FX1E(s, X(w))
               [] NN(w) = 10 -> op_FX0A(s, X(w))
               [] NN(w) = 41 -> op_FX29(s, X(w))
               [] NN(w) = 51 -> op_FX33(s, X(w), lands)
               [] NN(w) = 85 -> op_FX55(s, X(w), lands)
               [] NN(w) = 101 -> op_FX65(s, X(w), u)
               [] OTHER -> exit_unknown_instruction(s))
      [] OTHER -> exit_unknown_instruction(s)

processor_cycle(s, r, u, lands) ==
    LET w == fetch(s, u)
        res == dispatch([s EXCEPT !.program_counter = U16(@ + 2)], w, r, u, lands)
    IN  [st |-> res.st, exit |-> res.exit,
         ub |-> res.ub \/ s.program_counter + 1 >= MEM_SIZE,
         instruction |-> w]

(***************************************************************************)
(* init_state sets mem, program_counter, display, V and stack_ptr; the     *)
(* other fields of the chip8_state on main's stack stay uninitialised, and *)
(* hold whatever g (drawn by Init) says.                                   *)
(***************************************************************************)
init_state(g) ==
    [mem |-> [a \in 0..(MEM_SIZE - 1) |-> 0],
     display |-> [i \in 0..(DISPLAY_WIDTH - 1) |-> [j \in 0..(DISPLAY_HEIGHT - 1) |-> FALSE]],
     program_counter |-> ROM_START,
     index_register |-> g.index_register,
     stack_ptr |-> 0,
     stack |-> [k \in 0..(MAX_STACK_SIZE - 1) |-> g.stack],
     delay_timer |-> g.delay_timer,
     sound_timer |-> g.sound_timer,
     V |-> [i \in 0..15 |-> 0],
     keys_pressed |-> [i \in 0..15 |-> i \in g.keys]]

\* load_rom putting the file one byte further on, at 0x201.
load_rom_off_by_one(rom, mem) ==
    LET room == MEM_SIZE - ROM_START
        bytes_read == IF Len(rom) < room THEN Len(rom) ELSE room
        m1 == [a \in 0..(MEM_SIZE - 1) |->
                 IF a > ROM_START /\ a - ROM_START - 1 < bytes_read
                 THEN rom[a - ROM_START] ELSE mem[a]]
        m2 == [a \in 0..(MEM_SIZE - 1) |->
                 IF a >= FONT_MEMORY_START /\ a - FONT_MEMORY_START < Len(font)
                 THEN font[a - FONT_MEMORY_START + 1] ELSE m1[a]]
    IN  IF bytes_read # Len(rom)
        THEN [mem |-> m1, exit |-> "load_failed"]
        ELSE [mem |-> m2, exit |-> "running"]

\* load_rom without the comparison of bytes_read and the file size.
load_rom_unchecked(rom, mem) ==
    LET room == MEM_SIZE - ROM_START
        bytes_read == IF Len(rom) < room THEN Len(rom) ELSE room
        m1 == [a \in 0..(MEM_SIZE - 1) |->
                 IF a >= ROM_START /\ a - ROM_START < bytes_read
                 THEN rom[a - ROM_START + 1] ELSE mem[a]]
        m2 == [a \in 0..(MEM_SIZE - 1) |->
                 IF a >= FONT_MEMORY_START /\ a - FONT_MEMORY_START < Len(font)
                 THEN font[a - FONT_MEMORY_START + 1] ELSE m1[a]]
    IN  [mem |-> m2, exit |-> "running"]

(***************************************************************************)
(* load_rom: fread puts at most 4096 - 0x200 bytes of the file at 0x200;   *)
(* if that is not the whole file the process exits, else the font is       *)
(* copied to FONT_MEMORY_START.  rom is the file, a sequence of bytes.     *)
(***************************************************************************)
load_rom(rom, mem) ==
    LET room == MEM_SIZE - ROM_START
        bytes_read == IF Len(rom) < room THEN Len(rom) ELSE room
        m1 == [a \in 0..(MEM_SIZE - 1) |->
                 IF a >= ROM_START /\ a - ROM_START < bytes_read
                 THEN rom[a - ROM_START + 1] ELSE mem[a]]
        m2 == [a \in 0..(MEM_SIZE - 1) |->
                 IF a >= FONT_MEMORY_START /\ a - FONT_MEMORY_START < Len(font)
                 THEN font[a - FONT_MEMORY_START + 1] ELSE m1[a]]
    IN  IF bytes_read # Len(rom)
        THEN [mem |-> m1, exit |-> "load_failed"]
        ELSE [mem |-> m2, exit |-> "running"]

(***************************************************************************)
(* process_sdl_events: every polled event that is not a quit copies the    *)
(* keyboard state into keys_pressed.  events is the sequence of keyboard   *)
(* states (sets of pressed keys) seen at the polled events.                *)
(***************************************************************************)
process_sdl_events(s, events) ==
    IF events = <<>> THEN s
    ELSE [s EXCEPT !.keys_pressed = [i \in 0..15 |-> i \in events[Len(events)]]]

(***************************************************************************)
(* Bounds of the model, and the inputs drawn within them.                  *)
(***************************************************************************)
SmallDepth == 3
MaxEvents == 1

\* What the uninitialised fields of the chip8_state may hold.
Garbage ==
    { [index_register |-> 0, delay_timer |-> 0, sound_timer |-> 0, stack |-> 0, keys |-> {}],
      [index_register |-> 65535, delay_timer |-> 3, sound_timer |-> 200, stack |-> 48879,
       keys |-> {0, 7}] }

\* The keyboard states a polled event may show, and the event batches of one loop.
KeyStates == { {}, {0, 7}, {15} }

EventBatches == UNION { [1..k -> KeyStates] : k \in 0..MaxEvents }

\* What rand() may return, and what a read outside an array may yield.
RandValues == { 1, 128, 255 }

OobBytes == { 0, 1, 255 }

\* Instruction words from their fields.
W(op, x, y, n) == op * 4096 + x * 256 + y * 16 + n

WNN(op, x, nn) == op * 4096 + x * 256 + nn

WNNN(op, nnn) == op * 4096 + nnn

\* A program (a sequence of words) as the bytes of its ROM file, big-endian.
RomBytes(words) ==
    [k \in 1..(2 * Len(words)) |->
        IF k % 2 = 1 THEN words[(k + 1) \div 2] \div 256 ELSE words[k \div 2] % 256]

\* d nested calls, each from its own address: at 0x200 + 4k, k < d, a call of
\* 0x200 + 4(k + 1) followed by a return; at 0x200 + 4d a return.  The last return
\* lands on the return at 0x202, which finds the stack empty.
CallProgram(d) ==
    [k \in 1..(2 * d + 1) |->
        IF k % 2 = 1 /\ k <= 2 * d THEN WNNN(2, ROM_START + 2 * (k + 1)) ELSE \h00EE]

CallPrograms ==
    { CallProgram(d) : d \in (1..SmallDepth) \cup {MAX_STACK_SIZE, MAX_STACK_SIZE + 1} }
    \cup { << \h2200 >>, << \h00EE >>, << \h2204, \h0000, \h6001, \h00EE >> }

\* Vx = rand, Vy = rand, then one word of the 8XYN family (8XY8 is none).
AluPrograms ==
    { << WNN(12, xy[1], 255), WNN(12, xy[2], 255), W(8, xy[1], xy[2], n) >> :
        xy \in { <<1, 2>>, <<1, 1>>, <<1, 15>>, <<15, 2>> },
        n \in (0..8) \cup {14} }
    \cup { << \h6105, \h6F03, \h81F5 >>, << \h6F05, \h6203, \h8F24 >>,
           << \h6F03, \h8F06 >>, << \h6F80, \h8F0E >>,
           << \h6107, \h6209, \h8126, \h812E >>, << \h6181, \h81FE, \h81F6 >> }

\* One word that is no instruction of the table, or a near miss of one.
UnknownPrograms ==
    { <<w>> : w \in { \h0000, \h00E1, \h00EF, \h0123, \h8128, \h812F, \hE100, \hE19F,
                      \hF100, \hF1FF, \hF156, \h5121, \h9121, \h512F } }

JumpPrograms ==
    { << \h1200 >>, << \h1201 >>, << \h1FFE >>, << \h1FFF >>,
      << \h6F02, \hBFFF >>, << \h6302, \hB300 >>, << \h6004, \hB300 >> }

SkipPrograms ==
    { << \h6105, \h3105, \h0000, \h4105, \h4106 >>,
      << \h6105, \h6205, \h5121, \h0000, \h9120, \h9121 >>,
      << \h6105, \h6206, \h5120, \h9120, \h0000, \h7101, \h71FF, \h71FF >> }

TimerPrograms ==
    { << \h6005, \hF015, \hF007, \h3000, \h1204 >>,
      << \h6003, \hF018, \h1204 >>,
      << \h6000, \hF015, \hF018, \h1206 >>,
      << \hF107 >> }

KeyPrograms ==
    { << \hF10A, \hF20A >>, << \hFF0A >> }
    \cup { << WNN(6, 1, k), \hE19E, \hE1A1, \hE19E >> : k \in {0, 3, 15, 16, 200} }

\* Draw glyph 8 at (0, 0), then the sprite at addr twice at (Vx, V3).
DrawPrograms ==
    { << \hA078, \h6000, \h6100, \hD015, WNNN(10, addr), WNN(6, x, o[1]), WNN(6, 3, o[2]),
         W(13, x, 3, n), W(13, x, 3, n) >> :
        addr \in {\h050, \h200},
        x \in {2, 15},
        o \in { <<2, 1>>, <<61, 29>>, <<70, 40>> },
        n \in {0, 5, 15} }
    \cup { << \hAFFE, \h623D, \h631D, \hD235, \hD235 >>,
           << \h6002, \hD015, \hD015 >>,
           << \hA050, \h6F00, \hDF05, \hDF05, \h00E0 >>,
           << \h6001, \h600A, \hA050, \hD005 >>,
           << \hA050, \hD005, \h6305, \h00E0 >>,
           << \hA050, \h6F03, \hD0F5, \h6F02, \hD0F5 >> }

MemPrograms ==
    { << \hA300, \h617B, \hF133 >>, << \hAFFF, \h610B, \hF133 >>,
      << \hAFFF, \h6101, \hF155, \h6002 >>,
      << \hA300, \hC0FF, \hC1FF, \h6207, \hF255, \h6000, \h6100, \hF165, \hF265 >>,
      << \hAFFF, \hF155, \hF165 >>,
      << \h6105, \hF129 >>, << \h61FF, \hF129 >>,
      << \hAFFE, \h61FF, \hF11E >>, << \h6101, \hF11E >>,
      << \h6F05, \hA100, \hFF1E >>,
      << \hA300, \hC0FF, \hC1FF, \hF155, \hF165 >>,
      << \hAFF0, \hC0FF, \hCFFF, \hFF55, \hFF65 >>,
      << \hC2FF, \hF255, \hF265 >>,
      << \hA204, \hF055, \hF065 >>,
      << \hAFFD, \h61FF, \hF133 >>, << \hA300, \h6107, \hF133 >> }

Programs ==
    CallPrograms \cup AluPrograms \cup UnknownPrograms \cup JumpPrograms \cup SkipPrograms
    \cup TimerPrograms \cup KeyPrograms \cup DrawPrograms \cup MemPrograms

\* The ROM files: the programs, a file that just fits and one a byte too long.
Roms ==
    { RomBytes(p) : p \in Programs }
    \cup { [k \in 1..(MEM_SIZE - ROM_START) |-> k % 256],
           [k \in 1..(MEM_SIZE - ROM_START + 1) |-> k % 256] }

(***************************************************************************)
(* The state: main's chip8_state; the ROM file named on the command line;  *)
(* the instruction word of the last cycle                                  *)
(* and how the process stands; and history: what the last cycle started    *)
(* from, all fields but mem (prev); the display, registers and             *)
(* index register the cycle before it started from (prev2); the word that  *)
(* cycle fetched; the addresses of the 2NNN words not yet returned from;   *)
(* the deepest stack reached; whether the last cycle left an array; and    *)
(* which of the fields init_state leaves uninitialised have been written   *)
(* since (written).                                                        *)
(***************************************************************************)
VARIABLES state, rom_file, exit_status, instruction, ub,
          prev, prev2, prev_instruction, call_sites, max_depth, written

vars == << state, rom_file, exit_status, instruction, ub,
           prev, prev2, prev_instruction, call_sites, max_depth, written >>

\* The fields left uninitialised by init_state that the case of word w reads
\* (a DXYN of height 0 reads no sprite row), and those it writes.
Reads(w) ==
    (IF \/ OP(w) = 13 /\ N(w) > 0
        \/ OP(w) = 15 /\ NN(w) \in {\h1E, \h33, \h55, \h65}
     THEN {"index_register"} ELSE {})
    \cup (IF OP(w) = 15 /\ NN(w) = \h07 THEN {"delay_timer"} ELSE {})
    \cup (IF \/ OP(w) = 14 /\ NN(w) \in {\h9E, \hA1}
             \/ OP(w) = 15 /\ NN(w) = \h0A
          THEN {"keys_pressed"} ELSE {})

Writes(w) ==
    (IF OP(w) = 10 \/ (OP(w) = 15 /\ NN(w) \in {\h1E, \h29})
     THEN {"index_register"} ELSE {})
    \cup (IF OP(w) = 15 /\ NN(w) = \h15 THEN {"delay_timer"} ELSE {})
    \cup (IF OP(w) = 15 /\ NN(w) = \h18 THEN {"sound_timer"} ELSE {})

Snapshot(s) == [display |-> s.display, V |-> s.V, index_register |-> s.index_register]

Fields(s) ==
    [display |-> s.display,
     program_counter |-> s.program_counter, index_register |-> s.index_register,
     stack_ptr |-> s.stack_ptr, stack |-> s.stack,
     delay_timer |-> s.delay_timer, sound_timer |-> s.sound_timer,
     V |-> s.V, keys_pressed |-> s.keys_pressed]

InitWith(roms) ==
    \E rom \in roms : \E g \in Garbage :
        LET s0 == init_state(g)
            loaded == load_rom(rom, s0.mem)
        IN  /\ state = [s0 EXCEPT !.mem = loaded.mem]
            /\ rom_file = rom
            /\ exit_status = loaded.exit
            /\ instruction = -1
            /\ ub = FALSE
            /\ prev = Fields(state)
            /\ prev2 = Snapshot(state)
            /\ prev_instruction = -1
            /\ call_sites = << >>
            /\ max_depth = 0
            /\ written = {}

Init == InitWith(Roms)

\* rand() is called by CXNN alone; a byte from outside an array is read only
\* by a cycle that leaves one.
RandDraws(s) == IF OP(fetch(s, 0)) = 12 THEN RandValues ELSE {0}

OobDraws(s, r) == IF processor_cycle(s, r, 0, FALSE).ub THEN OobBytes ELSE {0}

\* Whether a store behind mem lands is open only for a cycle of FX33 or FX55
\* that leaves mem.
SpillDraws(s, r, u) ==
    LET w == fetch(s, u)
    IN  IF OP(w) = 15 /\ NN(w) \in {\h33, \h55} /\ processor_cycle(s, r, u, FALSE).ub
        THEN BOOLEAN ELSE {FALSE}

(***************************************************************************)
(* One iteration of main's loop: process_sdl_events, then processor_cycle  *)
(* (draw_display and usleep change no state).  An exit inside              *)
(* processor_cycle ends the process in the state it had reached.           *)
(***************************************************************************)
main_loop(events, r, u, lands) ==
    /\ exit_status = "running"
    /\ LET s1 == process_sdl_events(state, events)
           res == processor_cycle(s1, r, u, lands)
           called == res.exit = "running" /\ OP(res.instruction) = 2
           returned == res.exit = "running" /\ res.instruction = 238
       IN  /\ state' = res.st
           /\ rom_file' = rom_file
           /\ exit_status' = res.exit
           /\ instruction' = res.instruction
           /\ ub' = res.ub
           /\ prev' = Fields(s1)
           /\ prev2' = Snapshot(prev)
           /\ prev_instruction' = instruction
           /\ call_sites' =
                 IF called THEN Append(call_sites, s1.program_counter)
                 ELSE IF returned /\ call_sites # << >>
                      THEN SubSeq(call_sites, 1, Len(call_sites) - 1)
                      ELSE call_sites
           /\ max_depth' = IF res.st.stack_ptr > max_depth THEN res.st.stack_ptr ELSE max_depth
           /\ written' = written
                            \cup (IF events # << >> THEN {"keys_pressed"} ELSE {})
                            \cup (IF res.exit = "running" THEN Writes(res.instruction) ELSE {})

\* process_sdl_events on SDL_QUIT, or with escape held: exit(EXIT_SUCCESS).
sdl_quit ==
    /\ exit_status = "running"
    /\ exit_status' = "quit"
    /\ UNCHANGED << state, rom_file, instruction, ub, prev, prev2, prev_instruction,
                    call_sites, max_depth, written >>

MainLoop ==
    \E events \in EventBatches :
        LET s1 == process_sdl_events(state, events)
        IN  \E r \in RandDraws(s1) : \E u \in OobDraws(s1, r) :
                \E lands \in SpillDraws(s1, r, u) : main_loop(events, r, u, lands)

Next == MainLoop \/ sdl_quit

Spec == Init /\ [][Next]_vars

\* The emulator on the timer programs.  main's loop is while (true): it keeps
\* iterating until the process exits.
TimerInit == InitWith({ RomBytes(p) : p \in TimerPrograms })

TimerSpec == TimerInit /\ [][Next]_vars /\ WF_vars(MainLoop)

(***************************************************************************)
(* What the last step was.                                                 *)
(***************************************************************************)
\* The last step was a processor_cycle, which fetched `instruction`.
Cycled == instruction \in 0..65535 /\ exit_status \in
              {"running", "unknown_instruction", "stack_overflow", "stack_underflow"}

\* This step is an iteration of main's loop (an action formula).
Cycles == exit_status = "running" /\ exit_status' # "quit"

Is8XYN(w, n) == OP(w) = 8 /\ N(w) = n

IsFXNN(w, nn) == OP(w) = 15 /\ NN(w) = nn

IsEXNN(w, nn) == OP(w) = 14 /\ NN(w) = nn

\* The opcode patterns of the dispatch table.
InTable(w) ==
    \/ w = \h00E0 \/ w = \h00EE
    \/ OP(w) \in {1, 2, 3, 4, 6, 7, 10, 11, 12, 13}
    \/ OP(w) \in {5, 9} /\ N(w) = 0
    \/ OP(w) = 8 /\ N(w) \in (0..7) \cup {14}
    \/ OP(w) = 14 /\ NN(w) \in {\h9E, \hA1}
    \/ OP(w) = 15 /\ NN(w) \in {\h07, \h0A, \h15, \h18, \h1E, \h29, \h33, \h55, \h65}

(***************************************************************************)
(* C1: after 8XY4 with x other than F, VF is 1 if the true sum of the      *)
(* pre-step Vx and Vy is at least 256 and 0 otherwise, and Vx is that sum  *)
(* modulo 256.                                                             *)
(***************************************************************************)
C1_AddSetsCarry ==
    (Cycled /\ Is8XYN(instruction, 4) /\ X(instruction) # VF) =>
        LET sum == prev.V[X(instruction)] + prev.V[Y(instruction)]
        IN  /\ state.V[VF] = BoolInt(sum >= 256)
            /\ state.V[X(instruction)] = sum % 256

(***************************************************************************)
(* C2: a 00EE return sets program_counter to the address just after the    *)
(* 2NNN most recently called and not yet returned from (call address + 2), *)
(* and leaves as many stack entries as there are calls still open, so the  *)
(* stack is empty after the return of the outermost call; at every depth   *)
(* up to MAX_STACK_SIZE.                                                   *)
(***************************************************************************)
C2_ReturnsAreLifo ==
    [][(Cycles /\ exit_status' = "running" /\ instruction' = \h00EE) =>
          /\ call_sites # << >>
          /\ Len(call_sites) <= MAX_STACK_SIZE
          /\ state'.program_counter = call_sites[Len(call_sites)] + 2
          /\ state'.stack_ptr = Len(call_sites) - 1]_vars

\* The MAX_STACK_SIZE nested calls have all returned, the last return emptying the stack.
C2_Witness ==
    /\ Cycled /\ exit_status = "running" /\ instruction = \h00EE
    /\ max_depth = MAX_STACK_SIZE
    /\ state.stack_ptr = 0
    /\ state.program_counter = ROM_START + 2

(***************************************************************************)
(* C3 as stated: a 2NNN on a stack of MAX_STACK_SIZE entries signals       *)
(* StackOverflow and changes nothing, program_counter included; a 2NNN on  *)
(* fewer entries does not signal it.                                       *)
(***************************************************************************)
C3_OverflowChangesNothing ==
    [][(Cycles /\ OP(instruction') = 2) =>
          /\ exit_status' = "stack_overflow" <=> state.stack_ptr = MAX_STACK_SIZE
          /\ exit_status' = "stack_overflow" =>
                /\ state'.program_counter = state.program_counter
                /\ state'.stack = state.stack /\ state'.stack_ptr = state.stack_ptr
                /\ state'.V = state.V /\ state'.mem = state.mem
                /\ state'.display = state.display]_vars

(***************************************************************************)
(* C3, amended: a 2NNN on a stack of MAX_STACK_SIZE entries signals        *)
(* StackOverflow and changes nothing but program_counter, which the fetch  *)
(* has advanced by 2: stack, stack size, registers, index register,        *)
(* timers, memory and display are as before the step.  A 2NNN on fewer     *)
(* entries does not signal StackOverflow.                                  *)
(***************************************************************************)
C3_OverflowChangesOnlyPc ==
    [][(Cycles /\ OP(instruction') = 2) =>
          /\ exit_status' = "stack_overflow" <=> state.stack_ptr = MAX_STACK_SIZE
          /\ exit_status' = "stack_overflow" =>
                state' = [state EXCEPT !.program_counter = state.program_counter + 2,
                                       !.keys_pressed = state'.keys_pressed]]_vars

\* The call on the full stack has been refused.
C3_Witness ==
    /\ exit_status = "stack_overflow" /\ OP(instruction) = 2
    /\ state.stack_ptr = MAX_STACK_SIZE /\ max_depth = MAX_STACK_SIZE

(***************************************************************************)
(* C4 as stated: a 00EE on the empty stack signals StackUnderflow and      *)
(* leaves program_counter at the address of the 00EE and the stack empty;  *)
(* a 00EE on a non-empty stack does not signal it.                         *)
(***************************************************************************)
C4_UnderflowKeepsPc ==
    (Cycled /\ instruction = \h00EE) =>
        /\ exit_status = "stack_underflow" <=> prev.stack_ptr = 0
        /\ exit_status = "stack_underflow" =>
              state.program_counter = prev.program_counter /\ state.stack_ptr = 0

(***************************************************************************)
(* C4, amended: a 00EE on the empty stack signals StackUnderflow and       *)
(* leaves program_counter 2 past the address of the 00EE (the fetch has    *)
(* advanced it) and the stack empty; a 00EE on a non-empty stack does not  *)
(* signal StackUnderflow.                                                  *)
(***************************************************************************)
C4_UnderflowLeavesPcAdvanced ==
    (Cycled /\ instruction = \h00EE) =>
        /\ exit_status = "stack_underflow" <=> prev.stack_ptr = 0
        /\ exit_status = "stack_underflow" =>
              /\ state.program_counter = prev.program_counter + 2
              /\ state.stack_ptr = 0
              /\ state.stack = prev.stack

\* The return that follows the last matching return has found the stack empty.
C4_Witness ==
    /\ exit_status = "stack_underflow" /\ instruction = \h00EE
    /\ prev.stack_ptr = 0 /\ max_depth > 0

(***************************************************************************)
(* C5: every fetched word that matches no pattern of the dispatch table    *)
(* makes the cycle signal UnknownInstruction.                              *)
(***************************************************************************)
C5_UnknownWordIsFatal ==
    (Cycled /\ ~InTable(instruction)) => exit_status = "unknown_instruction"

(***************************************************************************)
(* C6: while no fatal condition has been signalled, program_counter is     *)
(* even and within 0..4094.                                                *)
(***************************************************************************)
C6_PcEvenAndInMemory ==
    exit_status = "running" =>
        state.program_counter % 2 = 0 /\ state.program_counter \in 0..(MEM_SIZE - 2)

(***************************************************************************)
(* C7: in the running emulator, once FX15 has set delay_timer to a         *)
(* non-zero value, then unless FX15 keeps being executed, delay_timer      *)
(* eventually is 0 and stays 0; likewise sound_timer after FX18.           *)
(***************************************************************************)
DelayArmed ==
    exit_status = "running" /\ IsFXNN(instruction, \h15) /\ state.delay_timer > 0

SoundArmed ==
    exit_status = "running" /\ IsFXNN(instruction, \h18) /\ state.sound_timer > 0

C7_TimersRunDown ==
    /\ ([](exit_status = "running") /\ <>DelayArmed) =>
          ([]<>(IsFXNN(instruction, \h15)) \/ <>[](state.delay_timer = 0))
    /\ ([](exit_status = "running") /\ <>SoundArmed) =>
          ([]<>(IsFXNN(instruction, \h18)) \/ <>[](state.sound_timer = 0))

(***************************************************************************)
(* C8: a cycle that executes FX0A while no key is pressed returns to the   *)
(* caller and leaves the whole machine state as it was, program_counter    *)
(* at the address of the FX0A included, so that the next cycle executes    *)
(* the same instruction again.                                             *)
(***************************************************************************)
NoKey(s) == \A k \in 0..15 : ~s.keys_pressed[k]

C8_WaitRepeatsWithoutKey ==
    [][(Cycles /\ IsFXNN(instruction', \h0A) /\ NoKey(state')) =>
          /\ exit_status' = "running"
          /\ state' = [state EXCEPT !.keys_pressed = state'.keys_pressed]]_vars

\* The same FX0A has been executed by two cycles in a row, the second without a key.
C8_Witness ==
    /\ exit_status = "running" /\ IsFXNN(instruction, \h0A)
    /\ prev_instruction = instruction
    /\ NoKey(state)
    /\ state.program_counter = prev.program_counter
    /\ fetch(state, 0) = instruction

(***************************************************************************)
(* C9: a cycle that executes FX0A while some key is pressed sets Vx to the *)
(* lowest pressed key index, leaves program_counter 2 past the address of  *)
(* the FX0A, and changes no register other than Vx.                        *)
(***************************************************************************)
C9_WaitStoresLowestKey ==
    (Cycled /\ IsFXNN(instruction, \h0A) /\ ~NoKey(prev)) =>
        LET x == X(instruction)
            pressed == {k \in 0..15 : prev.keys_pressed[k]}
        IN  /\ exit_status = "running"
            /\ state.V[x] \in pressed
            /\ \A k \in pressed : state.V[x] <= k
            /\ state.program_counter = prev.program_counter + 2
            /\ \A i \in (0..15) \ {x} : state.V[i] = prev.V[i]

\* FX0A has run with two keys pressed and stored the lower one.
C9_Witness ==
    /\ Cycled /\ exit_status = "running" /\ IsFXNN(instruction, \h0A)
    /\ Cardinality({k \in 0..15 : prev.keys_pressed[k]}) = 2
    /\ prev.keys_pressed[state.V[X(instruction)]]
    /\ state.program_counter = prev.program_counter + 2

(***************************************************************************)
(* C10: two DXYN cycles in a row with the same height, the same origin     *)
(* (Vx mod 64, Vy mod 32), the same index register and the sprite rows     *)
(* they read inside memory leave every display cell as it was before the   *)
(* first of them.                                                          *)
(***************************************************************************)
Origin(V, w) == << V[X(w)] % DISPLAY_WIDTH, V[Y(w)] % DISPLAY_HEIGHT >>

SpriteInMemory(I, dy, n) ==
    \A j \in 0..(n - 1) : dy + j < DISPLAY_HEIGHT => I + j < MEM_SIZE

DrewTwice ==
    /\ Cycled /\ exit_status = "running"
    /\ OP(instruction) = 13 /\ OP(prev_instruction) = 13
    /\ N(instruction) = N(prev_instruction)
    /\ Origin(prev.V, instruction) = Origin(prev2.V, prev_instruction)
    /\ prev.index_register = prev2.index_register
    /\ SpriteInMemory(prev.index_register, Origin(prev.V, instruction)[2], N(instruction))

C10_DrawTwiceRestores == DrewTwice => state.display = prev2.display

\* The second draw has undone the first, on a display that was not blank.
C10_Witness ==
    /\ DrewTwice
    /\ prev.display # state.display
    /\ state.V[VF] = 1
    /\ \E i \in 0..(DISPLAY_WIDTH - 1) : \E j \in 0..(DISPLAY_HEIGHT - 1) : prev2.display[i][j]

(***************************************************************************)
(* C11 as stated: from the initial state, the four cycles of the ROM       *)
(* 6001 600A A050 D005 leave V0 = 0x0A, index_register = 0x050, VF = 0,    *)
(* and on the display exactly the five rows of the glyph of 0 (F0 90 90 90 *)
(* F0, most significant bit leftmost) with its top-left corner at          *)
(* (V0 mod 64, V1 mod 32), every other cell off.                           *)
(***************************************************************************)
GlyphProgram == << \h6001, \h600A, \hA050, \hD005 >>

GlyphDrawn ==
    /\ rom_file = RomBytes(GlyphProgram)
    /\ Cycled /\ instruction = \hD005
    /\ state.program_counter = ROM_START + 2 * Len(GlyphProgram)

\* The display shows the glyph of digit d with its corner at (ax, ay) and nothing else.
ShowsGlyph(display, d, ax, ay) ==
    \A i \in 0..(DISPLAY_WIDTH - 1) : \A j \in 0..(DISPLAY_HEIGHT - 1) :
        display[i][j] = (/\ i \in ax..(ax + 7)
                         /\ j \in ay..(ay + 4)
                         /\ Bit(font[5 * d + (j - ay) + 1], 7 - (i - ax)) = 1)

C11_GlyphAtV0V1 ==
    GlyphDrawn =>
        /\ exit_status = "running"
        /\ state.V[0] = \h0A /\ state.index_register = \h050 /\ state.V[VF] = 0
        /\ ShowsGlyph(state.display, 0, state.V[0] % DISPLAY_WIDTH, state.V[1] % DISPLAY_HEIGHT)

(***************************************************************************)
(* C11, amended: the same four cycles leave V0 = 0x0A, index_register =    *)
(* 0x050, VF = 0, and on the display exactly the glyph of 0 with its       *)
(* top-left corner at (V0 mod 64, V0 mod 32) = (10, 10): both register     *)
(* fields of the word D005 name V0.                                        *)
(***************************************************************************)
C11_GlyphAtV0V0 ==
    GlyphDrawn =>
        /\ exit_status = "running"
        /\ state.V[0] = \h0A /\ state.index_register = \h050 /\ state.V[VF] = 0
        /\ ShowsGlyph(state.display, 0, state.V[0] % DISPLAY_WIDTH, state.V[0] % DISPLAY_HEIGHT)

\* The glyph has been drawn: its corner cell (10, 10) is on, the cell (10, 0) is off.
C11_Witness ==
    /\ GlyphDrawn /\ exit_status = "running"
    /\ state.V[1] = 0
    /\ state.display[10][10] /\ ~state.display[10][0]

(***************************************************************************)
(* C12: after 8XY5 with x other than F and any y, F included, VF is 1 if   *)
(* the pre-step Vx exceeds the pre-step Vy and 0 otherwise, and Vx is the  *)
(* pre-step Vx minus the pre-step Vy, modulo 256.                          *)
(***************************************************************************)
C12_SubSetsNoBorrow ==
    (Cycled /\ Is8XYN(instruction, 5) /\ X(instruction) # VF) =>
        LET vx == prev.V[X(instruction)]
            vy == prev.V[Y(instruction)]
        IN  /\ state.V[VF] = BoolInt(vx > vy)
            /\ state.V[X(instruction)] = (vx - vy) % 256

(***************************************************************************)
(* C13: FX55 and then at once FX65 with the same x, index_register I       *)
(* unchanged and I + x <= 4095 (the FX65 word having survived the store)   *)
(* leave all sixteen registers as they were before the FX55, and           *)
(* mem[I + i] = Vi for every i in 0..x.                                    *)
(***************************************************************************)
StoredThenLoaded ==
    /\ Cycled /\ exit_status = "running"
    /\ IsFXNN(instruction, \h65) /\ IsFXNN(prev_instruction, \h55)
    /\ X(instruction) = X(prev_instruction)
    /\ prev.index_register = prev2.index_register
    /\ prev.index_register + X(instruction) <= MEM_SIZE - 1

C13_StoreLoadRoundTrip ==
    StoredThenLoaded =>
        /\ \A i \in 0..15 : state.V[i] = prev2.V[i]
        /\ \A i \in 0..X(instruction) : state.mem[prev.index_register + i] = prev2.V[i]

\* All sixteen registers have gone to the last sixteen bytes of mem and back.
C13_Witness ==
    /\ StoredThenLoaded
    /\ X(instruction) = 15 /\ prev.index_register + 15 = MEM_SIZE - 1
    /\ state.V[0] # 0 /\ state.V[15] # 0 /\ state.V[0] # state.V[15]
    /\ state.mem[MEM_SIZE - 1] = state.V[15]

(***************************************************************************)
(* C14: a cycle that executes 00E0 leaves every display cell off whatever  *)
(* the display showed, program_counter advanced by 2, and the registers    *)
(* (VF included), index_register, memory, stack and timers unchanged.      *)
(***************************************************************************)
C14_ClearTurnsAllOff ==
    [][(Cycles /\ instruction' = \h00E0) =>
          /\ exit_status' = "running"
          /\ \A i \in 0..(DISPLAY_WIDTH - 1) : \A j \in 0..(DISPLAY_HEIGHT - 1) :
                ~state'.display[i][j]
          /\ state' = [state EXCEPT !.display = state'.display,
                                    !.program_counter = U16(@ + 2),
                                    !.keys_pressed = state'.keys_pressed]]_vars

\* 00E0 has cleared a display that showed something, with a register set.
C14_Witness ==
    /\ Cycled /\ exit_status = "running" /\ instruction = \h00E0
    /\ \E i \in 0..(DISPLAY_WIDTH - 1) : \E j \in 0..(DISPLAY_HEIGHT - 1) : prev.display[i][j]
    /\ \A i \in 0..(DISPLAY_WIDTH - 1) : \A j \in 0..(DISPLAY_HEIGHT - 1) : ~state.display[i][j]
    /\ state.V[3] = 5

Loaded ==
    /\ instruction = -1 /\ exit_status = "running"
    /\ Len(rom_file) <= MEM_SIZE - ROM_START

C16_LoadedMachine ==
    Loaded =>
        /\ state.program_counter = \h200
        /\ state.stack_ptr = 0
        /\ \A i \in 0..15 : state.V[i] = 0
        /\ \A i \in 0..(DISPLAY_WIDTH - 1) : \A j \in 0..(DISPLAY_HEIGHT - 1) :
              ~state.display[i][j]
        /\ \A d \in 0..15 : \A k \in 0..4 :
              state.mem[\h050 + 5 * d + k] = font[5 * d + k + 1]
        /\ \A k \in 1..Len(rom_file) : state.mem[\h200 + k - 1] = rom_file[k]
        /\ \A a \in 0..(MEM_SIZE - 1) :
              (a \notin \h050..\h09F /\ a \notin \h200..(\h200 + Len(rom_file) - 1)) =>
                  state.mem[a] = 0

\* A file that just fits has been loaded: its bytes reach the end of mem.
C16_Witness ==
    /\ Loaded
    /\ Len(rom_file) = MEM_SIZE - ROM_START
    /\ state.mem[MEM_SIZE - 2] = 255 /\ rom_file[MEM_SIZE - ROM_START - 1] = 255
    /\ state.mem[ROM_START] = 1

(***************************************************************************)
(* C17: loading a file of more than 3584 bytes fails to the host and no    *)
(* cycle is ever executed on that machine; loading a file of at most 3584  *)
(* bytes succeeds and leaves every byte below 0x200 that is not in the     *)
(* font region as init_state set it.                                       *)
(***************************************************************************)
C17_OversizeRomNeverRuns ==
    /\ Len(rom_file) > MEM_SIZE - ROM_START =>
          exit_status = "load_failed" /\ instruction = -1
    /\ Len(rom_file) <= MEM_SIZE - ROM_START =>
          /\ exit_status # "load_failed"
          /\ instruction = -1 =>
                \A a \in 0..(ROM_START - 1) : a \notin \h050..\h09F => state.mem[a] = 0

\* The file of 3585 bytes has been refused.
C17_Witness ==
    /\ Len(rom_file) = MEM_SIZE - ROM_START + 1
    /\ exit_status = "load_failed" /\ instruction = -1

(***************************************************************************)
(* C18: after FX1E, index_register is the pre-step I plus the pre-step Vx  *)
(* modulo 2^16, and VF is 1 exactly when that wrapped sum is less than the *)
(* pre-step Vx, else 0; for every x.                                       *)
(***************************************************************************)
C18_AddToIndexFlagsWrap ==
    (Cycled /\ IsFXNN(instruction, \h1E)) =>
        LET vx == prev.V[X(instruction)]
            sum == (prev.index_register + vx) % 65536
        IN  /\ state.index_register = sum
            /\ state.V[VF] = BoolInt(sum < vx)

(***************************************************************************)
(* C19: after DXYN, for every x and y (F included), VF is 1 if and only if *)
(* some drawn, unclipped cell was on before the draw while its sprite bit  *)
(* (bit 7 - i of mem[I + j]) is 1, and 0 otherwise, whatever VF held       *)
(* before; the sprite rows read lying inside mem.                          *)
(***************************************************************************)
Collides(display, mem, I, ax, ay, n) ==
    \E j \in 0..(n - 1) : \E i \in 0..7 :
        /\ ax + i < DISPLAY_WIDTH /\ ay + j < DISPLAY_HEIGHT
        /\ display[ax + i][ay + j]
        /\ Bit(mem[I + j], 7 - i) = 1

Drew ==
    /\ Cycled /\ OP(instruction) = 13
    /\ SpriteInMemory(prev.index_register, Origin(prev.V, instruction)[2], N(instruction))

C19_CollisionFlag ==
    Drew =>
        LET o == Origin(prev.V, instruction)
        IN  state.V[VF] = BoolInt(Collides(prev.display, state.mem, prev.index_register,
                                           o[1], o[2], N(instruction)))

\* A draw positioned by VF, which held more than 1, has hit nothing and left VF = 0.
C19_Witness ==
    /\ Drew /\ X(instruction) = VF
    /\ prev.V[VF] > 1 /\ state.V[VF] = 0
    /\ \E i \in 0..(DISPLAY_WIDTH - 1) : \E j \in 0..(DISPLAY_HEIGHT - 1) :
          state.display[i][j] /\ ~prev.display[i][j]

(***************************************************************************)
(* C20: DXYN with anchor (ax, ay) = (Vx mod 64, Vy mod 32) changes only    *)
(* display cells (ax + i, ay + j) with 0 <= i < 8, 0 <= j < n, ax + i < 64 *)
(* and ay + j < 32; every other cell is as before, so what extends past    *)
(* the right or bottom edge is clipped and does not wrap.                  *)
(***************************************************************************)
C20_DrawStaysInClippedBox ==
    (Cycled /\ OP(instruction) = 13) =>
        LET o == Origin(prev.V, instruction)
        IN  \A i \in 0..(DISPLAY_WIDTH - 1) : \A j \in 0..(DISPLAY_HEIGHT - 1) :
                (i \notin o[1]..(o[1] + 7) \/ j \notin o[2]..(o[2] + N(instruction) - 1)) =>
                    state.display[i][j] = prev.display[i][j]

\* A sprite reaching past both the right and the bottom edge has been drawn.
C20_Witness ==
    /\ Cycled /\ OP(instruction) = 13
    /\ Origin(prev.V, instruction)[1] + 8 > DISPLAY_WIDTH
    /\ Origin(prev.V, instruction)[2] + N(instruction) > DISPLAY_HEIGHT
    /\ state.display[DISPLAY_WIDTH - 1][DISPLAY_HEIGHT - 1]
           # prev.display[DISPLAY_WIDTH - 1][DISPLAY_HEIGHT - 1]

(***************************************************************************)
(* C21: after 8XY4, 8XY5, 8XY6, 8XY7 or 8XYE, for every x and y (F         *)
(* included), VF holds the flag of that opcode, computed from the pre-step *)
(* registers, and so is 0 or 1; it never holds an arithmetic result.       *)
(***************************************************************************)
Flag(n, vx, vy) ==
    CASE n = 4 -> BoolInt(vx + vy >= 256)
      [] n = 5 -> BoolInt(vx > vy)
      [] n = 6 -> vx % 2
      [] n = 7 -> BoolInt(vy > vx)
      [] n = 14 -> vx \div 128

C21_FlagIsZeroOrOne ==
    (Cycled /\ OP(instruction) = 8 /\ N(instruction) \in {4, 5, 6, 7, 14}) =>
        /\ state.V[VF] \in {0, 1}
        /\ state.V[VF] = Flag(N(instruction), prev.V[X(instruction)], prev.V[Y(instruction)])

(***************************************************************************)
(* C22: after 8XY6, for every x (F included), VF is bit 0 of the pre-step  *)
(* Vx; after 8XYE, VF is bit 7 of the pre-step Vx; and for x other than F, *)
(* Vx ends as the pre-step Vx halved (rounded down), respectively doubled  *)
(* modulo 256, Vy not being used.                                          *)
(***************************************************************************)
C22_ShiftFlagIsShiftedOutBit ==
    (Cycled /\ OP(instruction) = 8 /\ N(instruction) \in {6, 14}) =>
        LET x == X(instruction)
            vx == prev.V[x]
        IN  /\ state.V[VF] = IF N(instruction) = 6 THEN vx % 2 ELSE (vx \div 128) % 2
            /\ x # VF =>
                  state.V[x] = IF N(instruction) = 6 THEN vx \div 2 ELSE (2 * vx) % 256

(***************************************************************************)
(* C23: with Vx in 0..15, a cycle that executes EX9E leaves                *)
(* program_counter 4 past the address of the instruction if                *)
(* keys_pressed[Vx] is true and 2 past it otherwise; one that executes     *)
(* EXA1 leaves it 4 past if keys_pressed[Vx] is false and 2 past           *)
(* otherwise; neither changes a register, the key state, memory, the stack *)
(* or the display.                                                         *)
(***************************************************************************)
C23_KeySkips ==
    [][(/\ Cycles
        /\ (IsEXNN(instruction', \h9E) \/ IsEXNN(instruction', \hA1))
        /\ state.V[X(instruction')] \in 0..15) =>
          LET pressed == state'.keys_pressed[state.V[X(instruction')]]
              skips == IF NN(instruction') = \h9E THEN pressed ELSE ~pressed
          IN  /\ exit_status' = "running"
              /\ state' = [state EXCEPT
                              !.program_counter = U16(@ + (IF skips THEN 4 ELSE 2)),
                              !.keys_pressed = state'.keys_pressed]]_vars

\* EX9E has skipped on key F pressed.
C23_Witness ==
    /\ Cycled /\ exit_status = "running" /\ IsEXNN(instruction, \h9E)
    /\ prev.V[X(instruction)] = 15 /\ prev.keys_pressed[15]
    /\ state.program_counter = prev.program_counter + 4

(***************************************************************************)
(* C24: with I + 2 <= 4095, a cycle that executes FX33 leaves in mem[I],   *)
(* mem[I + 1], mem[I + 2] the hundreds, tens and ones decimal digits of Vx *)
(* (each in 0..9, 100 * mem[I] + 10 * mem[I + 1] + mem[I + 2] = Vx), and   *)
(* changes no other byte of mem, no register and not index_register.       *)
(***************************************************************************)
C24_DecimalDigits ==
    [][(Cycles /\ IsFXNN(instruction', \h33) /\ state.index_register + 2 <= MEM_SIZE - 1) =>
          LET I == state.index_register
              vx == state.V[X(instruction')]
              m == state'.mem
          IN  /\ exit_status' = "running"
              /\ m[I] \in 0..9 /\ m[I + 1] \in 0..9 /\ m[I + 2] \in 0..9
              /\ 100 * m[I] + 10 * m[I + 1] + m[I + 2] = vx
              /\ \A a \in 0..(MEM_SIZE - 1) : a \notin I..(I + 2) => m[a] = state.mem[a]
              /\ state' = [state EXCEPT !.mem = m,
                                        !.program_counter = U16(@ + 2),
                                        !.keys_pressed = state'.keys_pressed]]_vars

\* The digits 2, 5, 5 of 255 have been stored in the last three bytes of mem.
C24_Witness ==
    /\ Cycled /\ exit_status = "running" /\ IsFXNN(instruction, \h33)
    /\ prev.V[X(instruction)] = 255 /\ prev.index_register = MEM_SIZE - 3
    /\ state.mem[MEM_SIZE - 3] = 2 /\ state.mem[MEM_SIZE - 2] = 5 /\ state.mem[MEM_SIZE - 1] = 5

(***************************************************************************)
(* C25: a display cell changes only in a cycle that executes 00E0 or DXYN; *)
(* a cycle of any other opcode (FX0A waiting and the cycles that end in a  *)
(* fatal condition included) leaves all 2048 cells as they were.           *)
(***************************************************************************)
C25_DisplayPersists ==
    (Cycled /\ instruction # \h00E0 /\ OP(instruction) # 13) =>
        state.display = prev.display

(***************************************************************************)
(* C26: every address of mem a cycle reads or writes lies within 0..4095:  *)
(* the two bytes fetched at program_counter and program_counter + 1, the   *)
(* sprite rows at index_register + j in DXYN, and the cells                *)
(* index_register .. index_register + x (or + 2) of FX55, FX65 and FX33.   *)
(***************************************************************************)
C26_AccessesInMemory ==
    Cycled =>
        LET w == instruction
            I == prev.index_register
        IN  /\ prev.program_counter + 1 <= MEM_SIZE - 1
            /\ OP(w) = 13 => SpriteInMemory(I, Origin(prev.V, w)[2], N(w))
            /\ IsFXNN(w, \h33) => I + 2 <= MEM_SIZE - 1
            /\ (IsFXNN(w, \h55) \/ IsFXNN(w, \h65)) => I + X(w) <= MEM_SIZE - 1

(***************************************************************************)
(* C27: the key index EX9E and EXA1 look up in keys_pressed, the value of  *)
(* Vx, lies within 0..15.                                                  *)
(***************************************************************************)
C27_KeyIndexInRange ==
    (Cycled /\ (IsEXNN(instruction, \h9E) \/ IsEXNN(instruction, \hA1))) =>
        prev.V[X(instruction)] \in 0..15

(***************************************************************************)
(* C28: execution is determined by the ROM, the key snapshots and the      *)
(* random bytes, two machines given the same of these agreeing on every    *)
(* field after every cycle; which requires, as the claim says, that no     *)
(* cycle reads a field (index_register, a timer, the key flags) that       *)
(* neither init_state nor process_sdl_events nor an earlier cycle has      *)
(* written.  The key flags count as written by the process_sdl_events of   *)
(* the same iteration.                                                     *)
(***************************************************************************)
C28_ReadsOnlyWrittenFields ==
    [][Cycles =>
          Reads(instruction') \subseteq (written \cup (written' \cap {"keys_pressed"}))]_vars

=============================================================================
